---- MODULE Spec2Model ----
(***************************************************************************)
(* Gateway NFS-e: the mTLS gateway of src/unnamed/part_000 (the revision   *)
(* of lines 1-202, which requires nsu, checks the configuration and picks  *)
(* the first record that carries an ArquivoXml).                           *)
(*                                                                         *)
(* JavaScript strings are sequences of character codes, Buffers are        *)
(* sequences of bytes, and a JavaScript value is a record tagged by its    *)
(* type in field t.                                                        *)
(***************************************************************************)
EXTENDS Integers, Sequences, FiniteSets, TLC

VARIABLES
    config,   \* NACIONAL_BASE_URL, CERT_PFX_BASE64, CERT_PFX_PASSPHRASE
    pc,       \* per request: "idle", "awaiting" (inside await api.get), "done"
    req,      \* per request: the route and the query parameters
    sent,     \* per request: the outbound api.get call (url, params)
    ncalls,   \* per request: number of outbound calls dispatched
    reply,    \* per request: what the upstream call settled with
    resp,     \* per request: the response written to res
    nresp,    \* per request: number of responses written
    decIn,    \* argument given to tryDecodeXml
    decOut    \* what tryDecodeXml returned for decIn

vars == <<config, pc, req, sent, ncalls, reply, resp, nresp, decIn, decOut>>

-----------------------------------------------------------------------------
(* Bounds of the model *)

\* number of requests handled concurrently
NumReqs == 2
\* longest LoteDFe array the upstream returns
MaxRecords == 2
\* longest raw string given to tryDecodeXml
MaxLen == 3

-----------------------------------------------------------------------------
(* JavaScript values *)

Undefined == [t |-> "undefined"]
Null == [t |-> "null"]
Str(s) == [t |-> "string", s |-> s]
\* a finite number is a sign, an integer part and the fraction's digits
\* (without trailing zeros); NaN is the only non-finite number that arises
Num(neg, int, frac) ==
    [t |-> "number", nan |-> FALSE, neg |-> neg, int |-> int, frac |-> frac]
NaN == [t |-> "number", nan |-> TRUE, neg |-> FALSE, int |-> 0, frac |-> <<>>]
IntNum(n) == Num(FALSE, n, <<>>)
Arr(items) == [t |-> "array", items |-> items]

\* ToBoolean, as used by `!v`, `v || d`, `find((x) => x?.ArquivoXml)`
Truthy(v) ==
    CASE v.t = "string" -> v.s # <<>>
      [] v.t = "number" -> ~v.nan /\ (v.int # 0 \/ v.frac # <<>>)
      [] v.t \in {"object", "array"} -> TRUE
      [] OTHER -> FALSE

\* character codes
LT == 60
EQ == 61
REPLACEMENT == 65533

\* WhiteSpace and LineTerminator code units removed by String.prototype.trim
WhiteSpace ==
    {9, 10, 11, 12, 13, 32, 160, 5760, 8232, 8233, 8239, 8287, 12288, 65279}
    \cup 8192..8202

RECURSIVE TrimStart(_)
TrimStart(s) ==
    IF s # <<>> /\ Head(s) \in WhiteSpace THEN TrimStart(Tail(s)) ELSE s

RECURSIVE TrimEnd(_)
TrimEnd(s) ==
    IF s # <<>> /\ s[Len(s)] \in WhiteSpace
    THEN TrimEnd(SubSeq(s, 1, Len(s) - 1))
    ELSE s

\* s.trim()
Trim(s) == TrimEnd(TrimStart(s))

\* s.trim().startsWith("<")
TrimStartsWithLt(s) == LET x == Trim(s) IN x # <<>> /\ x[1] = LT

-----------------------------------------------------------------------------
(* Buffer.from(s, "base64"), zlib.gunzipSync, buff.toString("utf8") *)

\* value of a base64 or base64url character, 64 for any other character
unbase64(c) ==
    CASE c \in 65..90 -> c - 65
      [] c \in 97..122 -> c - 71
      [] c \in 48..57 -> c + 4
      [] c \in {43, 45} -> 62
      [] c \in {47, 95} -> 63
      [] OTHER -> 64

\* decoding stops at the first '='
UpToPad(s) ==
    LET pads == {i \in 1..Len(s) : s[i] = EQ}
    IN  IF pads = {} THEN s
        ELSE SubSeq(s, 1, (CHOOSE i \in pads : \A j \in pads : i <= j) - 1)

\* the 6-bit groups of the legal characters; illegal characters are skipped
Sextets(s) ==
    LET legal == SelectSeq(UpToPad(s), LAMBDA c : unbase64(c) < 64)
    IN  [i \in 1..Len(legal) |-> unbase64(legal[i])]

\* the bytes of a string decoded as base64: never throws for a string
Base64Decode(s) ==
    LET sx == Sextets(s)
        n == (Len(sx) * 6) \div 8
        byte(k) ==
            LET o == 8 * (k - 1)
                j == (o \div 6) + 1
                sh == o % 6
            IN  CASE sh = 0 -> sx[j] * 4 + (sx[j + 1] \div 16)
                  [] sh = 2 -> (sx[j] % 16) * 16 + (sx[j + 1] \div 4)
                  [] sh = 4 -> (sx[j] % 4) * 64 + sx[j + 1]
    IN  [k \in 1..n |-> byte(k)]

\* result of an operation that may throw
Ok(v) == [ok |-> TRUE, v |-> v]
Throw(m) == [ok |-> FALSE, v |-> m]

\* Buffer.from(v, "base64"): a TypeError for a number or a plain object
BufferFromBase64(v) ==
    IF v.t = "string" THEN Ok(Base64Decode(v.s))
    ELSE Throw("ERR_INVALID_ARG_TYPE")

\* gzip member, reduced to its framing: magic 1f 8b, method 08, the stored
\* data, and the ISIZE trailer (data length mod 256)
GzipMagic == <<31, 139, 8>>

\* zlib.gunzipSync: throws unless the buffer is a well-formed member
gunzipSync(b) ==
    IF /\ Len(b) >= 4
       /\ SubSeq(b, 1, 3) = GzipMagic
       /\ b[Len(b)] = (Len(b) - 4) % 256
    THEN Ok(SubSeq(b, 4, Len(b) - 1))
    ELSE Throw("Z_DATA_ERROR")

\* buff.toString("utf8"): one-, two- and three-byte sequences are decoded,
\* any other byte becomes U+FFFD (four-byte sequences, which give surrogate
\* pairs, are not among the inputs drawn)
RECURSIVE toStringUtf8(_)
toStringUtf8(b) ==
    IF b = <<>> THEN <<>>
    ELSE LET cont(i) == i <= Len(b) /\ b[i] \in 128..191
             from(i) == toStringUtf8(SubSeq(b, i, Len(b)))
         IN  IF b[1] < 128 THEN <<b[1]>> \o from(2)
             ELSE IF b[1] \in 194..223 /\ cont(2)
             THEN <<(b[1] - 192) * 64 + (b[2] - 128)>> \o from(3)
             ELSE IF /\ b[1] \in 224..239 /\ cont(2) /\ cont(3)
                     /\ b[1] = 224 => b[2] >= 160
                     /\ b[1] = 237 => b[2] <= 159
             THEN <<(b[1] - 224) * 4096 + (b[2] - 128) * 64 + (b[3] - 128)>> \o from(4)
             ELSE <<REPLACEMENT>> \o from(2)

-----------------------------------------------------------------------------
(* tryDecodeXml *)

\* 1) Base64 + GZip: the try block; Throw stands for reaching the catch
Step1(arquivoXml) ==
    LET buff == BufferFromBase64(arquivoXml)
    IN  IF ~buff.ok THEN buff
        ELSE LET unzipped == gunzipSync(buff.v)
             IN  IF ~unzipped.ok THEN unzipped
                 ELSE Ok(toStringUtf8(unzipped.v))

\* 2) Base64 direto
Step2(arquivoXml) ==
    LET buff == BufferFromBase64(arquivoXml)
    IN  IF ~buff.ok THEN buff ELSE Ok(toStringUtf8(buff.v))

\* the heuristic with the raw-text test moved before the base64 test
tryDecodeXmlRawFirst(arquivoXml) ==
    IF ~Truthy(arquivoXml) THEN Null
    ELSE LET r1 == Step1(arquivoXml)
             r2 == Step2(arquivoXml)
         IN  IF r1.ok /\ TrimStartsWithLt(r1.v) THEN Str(r1.v)
             ELSE IF arquivoXml.t = "string" /\ TrimStartsWithLt(arquivoXml.s)
                  THEN arquivoXml
             ELSE IF r2.ok /\ TrimStartsWithLt(r2.v) THEN Str(r2.v)
             ELSE Null

tryDecodeXml(arquivoXml) ==
    IF ~Truthy(arquivoXml) THEN Null
    ELSE LET r1 == Step1(arquivoXml)
             r2 == Step2(arquivoXml)
         IN  IF r1.ok /\ TrimStartsWithLt(r1.v) THEN Str(r1.v)
             ELSE IF r2.ok /\ TrimStartsWithLt(r2.v) THEN Str(r2.v)
             ELSE IF arquivoXml.t = "string" /\ TrimStartsWithLt(arquivoXml.s)
                  THEN arquivoXml
             ELSE Null

-----------------------------------------------------------------------------
(* Number(v), String(n), safeInt, safeBool *)

Digits == 48..57
PLUS == 43
MINUS == 45
DOT == 46

AllDigits(s) == \A i \in 1..Len(s) : s[i] \in Digits

RECURSIVE DigitsValue(_)
DigitsValue(s) ==
    IF s = <<>> THEN 0
    ELSE 10 * DigitsValue(SubSeq(s, 1, Len(s) - 1)) + (s[Len(s)] - 48)

RECURSIVE StripZeros(_)
StripZeros(s) ==
    IF s # <<>> /\ s[Len(s)] = 48 THEN StripZeros(SubSeq(s, 1, Len(s) - 1)) ELSE s

\* StringToNumber for the decimal literals: optional white space, an optional
\* sign, digits with an optional fraction; "" is 0; any other text is NaN
\* (exponents, Infinity and 0x/0o/0b literals are outside the inputs drawn)
StringToNumber(s) ==
    LET x == Trim(s)
        signed == x # <<>> /\ x[1] \in {PLUS, MINUS}
        neg == signed /\ x[1] = MINUS
        u == IF signed THEN Tail(x) ELSE x
        dots == {i \in 1..Len(u) : u[i] = DOT}
        p == IF dots = {} THEN Len(u) + 1
             ELSE CHOOSE i \in dots : \A j \in dots : i <= j
        ip == SubSeq(u, 1, p - 1)
        fp == SubSeq(u, p + 1, Len(u))
    IN  IF x = <<>> THEN IntNum(0)
        ELSE IF AllDigits(ip) /\ AllDigits(fp) /\ Len(ip) + Len(fp) >= 1
             THEN Num(neg, DigitsValue(ip), StripZeros(fp))
             ELSE NaN

\* Number(v)
Number(v) ==
    CASE v.t = "string" -> StringToNumber(v.s)
      [] v.t = "number" -> v
      [] v.t = "null" -> IntNum(0)
      [] OTHER -> NaN

RECURSIVE IntToString(_)
IntToString(n) ==
    IF n < 10 THEN <<48 + n>>
    ELSE Append(IntToString(n \div 10), 48 + (n % 10))

\* String(n), as `${nsu}` renders it: -0 is "0"
NumberToString(n) ==
    IF n.nan THEN <<78, 97, 78>>
    ELSE IF n.int = 0 /\ n.frac = <<>> THEN <<48>>
    ELSE (IF n.neg THEN <<MINUS>> ELSE <<>>)
         \o IntToString(n.int)
         \o (IF n.frac = <<>> THEN <<>> ELSE <<DOT>> \o n.frac)

safeInt(v, fallback) ==
    LET n == Number(v) IN IF ~n.nan THEN n ELSE fallback

\* c.toLowerCase() for the Latin-1 letters
ToLower(c) ==
    IF c \in 65..90 \/ (c \in 192..222 /\ c # 215) THEN c + 32 ELSE c

toLowerCase(s) == [i \in 1..Len(s) |-> ToLower(s[i])]

TrueWords == {<<116, 114, 117, 101>>, <<49>>, <<115, 105, 109>>}
FalseWords ==
    {<<102, 97, 108, 115, 101>>, <<48>>, <<110, 97, 111>>, <<110, 227, 111>>}

safeBool(v, fallback) ==
    IF v.t \in {"undefined", "null"} THEN fallback
    ELSE LET s == Trim(toLowerCase(v.s))
         IN  IF s \in TrueWords THEN TRUE
             ELSE IF s \in FalseWords THEN FALSE
             ELSE fallback

-----------------------------------------------------------------------------
(* Configuration, buildMtlsAgent, buildAxios, buildErrorDebug *)

\* "https://x"
BaseUrlValue == <<104, 116, 116, 112, 115, 58, 47, 47, 120>>
\* base64 text of the .pfx
PfxValue == <<77, 73, 73, 75>>
\* the passphrase
PassValue == <<115, 51>>

\* what process.env can hold at start: each variable unset, empty or set
Configs ==
    [NACIONAL_BASE_URL : {Undefined, Str(<<>>), Str(BaseUrlValue)},
     CERT_PFX_BASE64 : {Undefined, Str(<<>>), Str(PfxValue)},
     CERT_PFX_PASSPHRASE : {Undefined, Str(<<>>), Str(PassValue)}]

FullConfig ==
    [NACIONAL_BASE_URL |-> Str(BaseUrlValue),
     CERT_PFX_BASE64 |-> Str(PfxValue),
     CERT_PFX_PASSPHRASE |-> Str(PassValue)]

\* an Error: new Error(message) carries neither response nor config
Error(message) ==
    [message |-> message, response |-> Undefined, config |-> Undefined]

buildMtlsAgent(cfg) ==
    IF ~Truthy(cfg.CERT_PFX_BASE64) THEN Throw(Error("CERT_PFX_BASE64 ausente"))
    ELSE IF ~Truthy(cfg.CERT_PFX_PASSPHRASE)
    THEN Throw(Error("CERT_PFX_PASSPHRASE ausente"))
    ELSE Ok([pfx |-> Base64Decode(cfg.CERT_PFX_BASE64.s),
             passphrase |-> cfg.CERT_PFX_PASSPHRASE,
             rejectUnauthorized |-> TRUE,
             minVersion |-> "TLSv1.2"])

TimeoutMs == 60000

\* buildAxios of the older revision: NACIONAL_BASE_URL is not checked
buildAxiosUnchecked(cfg) ==
    LET httpsAgent == buildMtlsAgent(cfg)
    IN  IF ~httpsAgent.ok THEN httpsAgent
        ELSE Ok([baseURL |-> cfg.NACIONAL_BASE_URL,
                 httpsAgent |-> httpsAgent.v,
                 timeout |-> TimeoutMs])

buildAxios(cfg) ==
    IF ~Truthy(cfg.NACIONAL_BASE_URL) THEN Throw(Error("NACIONAL_BASE_URL ausente"))
    ELSE LET httpsAgent == buildMtlsAgent(cfg)
         IN  IF ~httpsAgent.ok THEN httpsAgent
             ELSE Ok([baseURL |-> cfg.NACIONAL_BASE_URL,
                      httpsAgent |-> httpsAgent.v,
                      timeout |-> TimeoutMs])

\* a || ""  for a string or undefined
OrEmpty(v) == IF Truthy(v) THEN v.s ELSE <<>>

\* buildErrorDebug without `err?.response?.status ||`
buildErrorDebugAlways500(err, defaultMessage) ==
    LET hasResponse == err.response.t # "undefined"
        hasConfig == err.config.t # "undefined"
        respData ==
            IF hasResponse /\ Truthy(err.response.data)
            THEN err.response.data
            ELSE [t |-> "object",
                  message |-> IF err.message # "" THEN err.message
                              ELSE defaultMessage]
        baseURL == IF hasConfig THEN err.config.baseURL ELSE Undefined
        url == IF hasConfig THEN err.config.url ELSE Undefined
    IN  [status |-> 500, respData |-> respData, baseURL |-> baseURL,
         url |-> url, fullUrl |-> OrEmpty(baseURL) \o OrEmpty(url)]

buildErrorDebug(err, defaultMessage) ==
    LET hasResponse == err.response.t # "undefined"
        hasConfig == err.config.t # "undefined"
        status ==
            IF hasResponse /\ err.response.status # 0
            THEN err.response.status ELSE 500
        respData ==
            IF hasResponse /\ Truthy(err.response.data)
            THEN err.response.data
            ELSE [t |-> "object",
                  message |-> IF err.message # "" THEN err.message
                              ELSE defaultMessage]
        baseURL == IF hasConfig THEN err.config.baseURL ELSE Undefined
        url == IF hasConfig THEN err.config.url ELSE Undefined
    IN  [status |-> status, respData |-> respData, baseURL |-> baseURL,
         url |-> url, fullUrl |-> OrEmpty(baseURL) \o OrEmpty(url)]

-----------------------------------------------------------------------------
(* What the upstream sends: documents, their encodings, envelopes *)

\* the base64 character of a 6-bit value
Base64Char(v) ==
    CASE v \in 0..25 -> v + 65
      [] v \in 26..51 -> v + 71
      [] v \in 52..61 -> v - 4
      [] v = 62 -> 43
      [] OTHER -> 47

\* standard base64 with padding, as the upstream encodes ArquivoXml
Base64Encode(b) ==
    LET at(i) == IF i <= Len(b) THEN b[i] ELSE 0
        n == (Len(b) * 8 + 5) \div 6
        sextet(k) ==
            LET o == 6 * (k - 1)
                i == (o \div 8) + 1
                sh == o % 8
            IN  CASE sh = 0 -> at(i) \div 4
                  [] sh = 6 -> (at(i) % 4) * 16 + (at(i + 1) \div 16)
                  [] sh = 4 -> (at(i) % 16) * 4 + (at(i + 1) \div 64)
                  [] sh = 2 -> at(i) % 64
        pad == (4 - (n % 4)) % 4
    IN  [k \in 1..n |-> Base64Char(sextet(k))] \o [k \in 1..pad |-> EQ]

\* the gzip member holding data (same framing as gunzipSync reads)
Gzip(data) == GzipMagic \o data \o <<Len(data) % 256>>

\* "<a/>", "<b/>", "<c/>", "no"
XmlA == <<60, 97, 47, 62>>
XmlB == <<60, 98, 47, 62>>
XmlC == <<60, 99, 47, 62>>
Garbage == <<110, 111>>

\* values an ArquivoXml field can hold: absent, empty, gzip+base64, base64,
\* raw XML, text that is none of them
ArquivoValues ==
    {Undefined, Str(<<>>), Str(Base64Encode(Gzip(XmlA))), Str(Base64Encode(XmlB)),
     Str(XmlC), Str(Garbage)}

Record(arquivoXml) == [t |-> "object", ArquivoXml |-> arquivoXml]

Records == {Record(a) : a \in ArquivoValues} \cup {Null}

RECURSIVE SeqsUpTo(_, _)
SeqsUpTo(S, n) ==
    IF n = 0 THEN {<<>>}
    ELSE LET shorter == SeqsUpTo(S, n - 1)
         IN  shorter \cup {Append(s, x) : s \in {q \in shorter : Len(q) = n - 1}, x \in S}

Envelope(lote) ==
    [t |-> "object", StatusProcessamento |-> "DOCUMENTOS_LOCALIZADOS", LoteDFe |-> lote]

\* bodies of a successful upstream reply: envelopes, an envelope without an
\* array in LoteDFe, a text body
Payloads ==
    {Envelope(Arr(items)) : items \in SeqsUpTo(Records, MaxRecords)}
    \cup {Envelope(Undefined), Envelope(Str(XmlC)), Str(XmlC)}

\* status codes axios resolves with (validateStatus: 2xx)
OkStatuses == {200, 204}

\* an AxiosError: config is the request's, response is set when the upstream
\* answered
AxiosError(message, response, call) ==
    [message |-> message, response |-> response,
     config |-> [t |-> "object", baseURL |-> call.baseURL, url |-> call.url]]

ErrorBody == [t |-> "object", title |-> "Unauthorized"]

Response(status, data) == [t |-> "object", status |-> status, data |-> data]

\* what api.get rejects with: no connection, TLS failure, timeout (no
\* response), or a reply outside 2xx (with or without a body)
Failures ==
    {[message |-> m, response |-> Undefined] :
        m \in {"connect ECONNREFUSED", "timeout of 60000ms exceeded",
               "unable to verify the first certificate", ""}}
    \cup {[message |-> "Request failed", response |-> Response(st, d)] :
            st \in {401, 503}, d \in {Str(<<>>), ErrorBody}}

-----------------------------------------------------------------------------
(* Requests *)

Reqs == 1..NumReqs

Routes == {"/", "/nfse/distribuicao", "/nfse/documento"}

\* req.query.nsu: absent, "", "0", "5", "05", "12", " 7", "-5", "1.5", "abc"
NsuInputs ==
    {Undefined, Str(<<>>), Str(<<48>>), Str(<<53>>), Str(<<48, 53>>),
     Str(<<49, 50>>), Str(<<32, 55>>), Str(<<45, 53>>), Str(<<49, 46, 53>>),
     Str(<<97, 98, 99>>)}

\* req.query.lote: absent, "false", " NAO "
LoteInputs ==
    {Undefined, Str(<<102, 97, 108, 115, 101>>), Str(<<32, 78, 65, 79, 32>>)}

\* req.query.cnpjConsulta: absent, "11"
CnpjInputs == {Undefined, Str(<<49, 49>>)}

Queries == [nsu : NsuInputs, cnpjConsulta : CnpjInputs, lote : LoteInputs]

\* "/DFe/"
DFePath == <<47, 68, 70, 101, 47>>

\* `attachment; filename="nfse_${nsu}.xml"`, abbreviated to `nfse_${nsu}.xml`
FileName(nsu) ==
    <<110, 102, 115, 101, 95>> \o NumberToString(nsu) \o <<46, 120, 109, 108>>

Falha(route) ==
    IF route = "/nfse/distribuicao" THEN "Falha ao consultar Portal Nacional"
    ELSE "Falha ao obter XML no Portal Nacional"

\* res.status(status).json(body)
Json(status, body) ==
    [status |-> status, type |-> "application/json; charset=utf-8",
     disposition |-> Undefined, body |-> body]

BadRequest == Json(400, [t |-> "object", erro |-> "Informe o parametro nsu"])

\* the catch block of both routes
ErrorResponse(route, err) ==
    LET dbg == buildErrorDebug(err, Falha(route))
    IN  Json(dbg.status,
             [t |-> "object", erro |-> Falha(route), status |-> dbg.status,
              fullUrl |-> dbg.fullUrl, detalhe |-> dbg.respData])

\* payload.LoteDFe.find((x) => x?.ArquivoXml)
RECURSIVE find(_)
find(items) ==
    IF items = <<>> THEN Undefined
    ELSE LET x == Head(items)
         IN  IF x.t = "object" /\ Truthy(x.ArquivoXml) THEN x
             ELSE find(Tail(items))

\* payload?.LoteDFe
LoteDFeOf(payload) == IF payload.t = "object" THEN payload.LoteDFe ELSE Undefined

\* itemComXml?.ArquivoXml
ArquivoXmlOf(item) == IF item.t = "object" THEN item.ArquivoXml ELSE Undefined

\* the selection of the older revision: payload.LoteDFe[0]
itemComXmlFirst(payload) ==
    LET lote == LoteDFeOf(payload)
    IN  IF lote.t = "array"
        THEN IF lote.items = <<>> THEN Undefined ELSE Head(lote.items)
        ELSE Null

itemComXml(payload) ==
    LET lote == LoteDFeOf(payload)
    IN  IF lote.t = "array" THEN find(lote.items) ELSE Null

\* the locals of request r's handler: nsu, cnpjConsulta, lote
Locals(q) ==
    [nsu |-> safeInt(q.nsu, IntNum(0)), cnpjConsulta |-> q.cnpjConsulta,
     lote |-> safeBool(q.lote, TRUE)]

\* the success path forwarding the upstream status, as the catch block does
DistribuicaoOkUpstreamStatus(response) == Json(response.status, response.data)

\* res.status(200).json(response.data)
DistribuicaoOk(response) == Json(200, response.data)

\* the document answered as in src/server.js: Content-Type without charset
DocumentoOkNoCharset(nsu, response) ==
    LET payload == response.data
        xml == tryDecodeXml(ArquivoXmlOf(itemComXml(payload)))
    IN  IF ~Truthy(xml)
        THEN Json(404, [t |-> "object", erro |-> "XML nao encontrado nesse NSU",
                        retorno |-> payload])
        ELSE [status |-> 200, type |-> "application/xml",
              disposition |-> Str(FileName(nsu)), body |-> xml]

\* /nfse/documento after the await
DocumentoOk(nsu, response) ==
    LET payload == response.data
        xml == tryDecodeXml(ArquivoXmlOf(itemComXml(payload)))
    IN  IF ~Truthy(xml)
        THEN Json(404, [t |-> "object", erro |-> "XML nao encontrado nesse NSU",
                        retorno |-> payload])
        ELSE [status |-> 200, type |-> "application/xml; charset=utf-8",
              disposition |-> Str(FileName(nsu)), body |-> xml]

Health ==
    [status |-> 200, type |-> "text/html; charset=utf-8",
     disposition |-> Undefined, body |-> [t |-> "text", text |-> "OK - gateway nfse"]]

\* api.get(`/DFe/${nsu}`, { params: { cnpjConsulta, lote } })
Call(api, locals) ==
    [t |-> "object", baseURL |-> api.baseURL, url |-> Str(DFePath \o NumberToString(locals.nsu)),
     params |-> [cnpjConsulta |-> locals.cnpjConsulta, lote |-> locals.lote],
     httpsAgent |-> api.httpsAgent, timeout |-> api.timeout]

Respond(r, response) ==
    /\ resp' = [resp EXCEPT ![r] = response]
    /\ nresp' = [nresp EXCEPT ![r] = @ + 1]
    /\ pc' = [pc EXCEPT ![r] = "done"]

\* the guard written as `req.query.nsu === undefined`: "" passes
MissingNsuUndefinedOnly(q) == q.nsu.t = "undefined"

\* if (!req.query.nsu)
MissingNsu(q) == ~Truthy(q.nsu)

\* a request arrives and its handler runs up to the await (or to its response)
Receive(r, route, q) ==
    /\ pc[r] = "idle"
    /\ req' = [req EXCEPT ![r] = [route |-> route, query |-> q]]
    /\ UNCHANGED <<config, reply, decIn, decOut>>
    /\ IF route = "/"
       THEN Respond(r, Health) /\ UNCHANGED <<sent, ncalls>>
       ELSE IF MissingNsu(q)
       THEN Respond(r, BadRequest) /\ UNCHANGED <<sent, ncalls>>
       ELSE LET api == buildAxios(config)
            IN  IF ~api.ok
                THEN Respond(r, ErrorResponse(route, api.v)) /\ UNCHANGED <<sent, ncalls>>
                ELSE /\ sent' = [sent EXCEPT ![r] = Call(api.v, Locals(q))]
                     /\ ncalls' = [ncalls EXCEPT ![r] = @ + 1]
                     /\ pc' = [pc EXCEPT ![r] = "awaiting"]
                     /\ UNCHANGED <<resp, nresp>>

\* nsu kept in a module-level variable: the handler resumes with the nsu of
\* whichever request arrived last
ResolveSharedNsu(r, status, data) ==
    /\ pc[r] = "awaiting"
    /\ reply' = [reply EXCEPT ![r] = [ok |-> TRUE, v |-> Response(status, data)]]
    /\ LET others == {x \in Reqs : x # r /\ pc[x] # "idle"}
           last == IF others = {} THEN r ELSE CHOOSE x \in others : TRUE
       IN  Respond(r, IF req[r].route = "/nfse/distribuicao"
                      THEN DistribuicaoOk(Response(status, data))
                      ELSE DocumentoOk(Locals(req[last].query).nsu,
                                       Response(status, data)))
    /\ UNCHANGED <<config, req, sent, ncalls, decIn, decOut>>

\* api.get resolves: the rest of the try block runs
Resolve(r, status, data) ==
    /\ pc[r] = "awaiting"
    /\ reply' = [reply EXCEPT ![r] = [ok |-> TRUE, v |-> Response(status, data)]]
    /\ Respond(r, IF req[r].route = "/nfse/distribuicao"
                  THEN DistribuicaoOk(Response(status, data))
                  ELSE DocumentoOk(Locals(req[r].query).nsu, Response(status, data)))
    /\ UNCHANGED <<config, req, sent, ncalls, decIn, decOut>>

\* a catch block that calls api.get once more before giving up
RejectRetry(r, f) ==
    /\ pc[r] = "awaiting"
    /\ LET err == AxiosError(f.message, f.response, sent[r])
       IN  IF ncalls[r] < 2
           THEN /\ ncalls' = [ncalls EXCEPT ![r] = @ + 1]
                /\ UNCHANGED <<config, pc, req, sent, reply, resp, nresp, decIn, decOut>>
           ELSE /\ reply' = [reply EXCEPT ![r] = [ok |-> FALSE, v |-> err]]
                /\ Respond(r, ErrorResponse(req[r].route, err))
                /\ UNCHANGED <<config, req, sent, ncalls, decIn, decOut>>

\* api.get rejects: the catch block runs
Reject(r, f) ==
    /\ pc[r] = "awaiting"
    /\ LET err == AxiosError(f.message, f.response, sent[r])
       IN  /\ reply' = [reply EXCEPT ![r] = [ok |-> FALSE, v |-> err]]
           /\ Respond(r, ErrorResponse(req[r].route, err))
    /\ UNCHANGED <<config, req, sent, ncalls, decIn, decOut>>

InitReqs ==
    /\ pc = [r \in Reqs |-> "idle"]
    /\ req = [r \in Reqs |-> Undefined]
    /\ sent = [r \in Reqs |-> Undefined]
    /\ ncalls = [r \in Reqs |-> 0]
    /\ reply = [r \in Reqs |-> Undefined]
    /\ resp = [r \in Reqs |-> Undefined]
    /\ nresp = [r \in Reqs |-> 0]

\* the process after start: any configuration, no request yet
Init ==
    /\ config \in Configs
    /\ InitReqs
    /\ decIn = Undefined
    /\ decOut = Undefined

\* one request, every input
Next ==
    \/ \E route \in Routes, q \in Queries : Receive(1, route, q)
    \/ \E st \in OkStatuses, data \in Payloads : Resolve(1, st, data)
    \/ \E f \in Failures : Reject(1, f)

Spec == Init /\ [][Next]_vars

-----------------------------------------------------------------------------
(* Concurrent requests *)

\* nsu absent, "5", "abc"
ConcQueries ==
    [nsu : {Undefined, Str(<<53>>), Str(<<97, 98, 99>>)},
     cnpjConsulta : {Undefined}, lote : {Undefined}]

ConcRoutes == {"/nfse/distribuicao", "/nfse/documento"}

ConcPayloads ==
    {Envelope(Arr(<<>>)), Envelope(Arr(<<Record(Str(Base64Encode(Gzip(XmlA))))>>))}

ConcFailures ==
    {[message |-> "connect ECONNREFUSED", response |-> Undefined],
     [message |-> "Request failed", response |-> Response(503, ErrorBody)]}

\* the pending api.get of request r settles: axios resolves, rejects, or
\* rejects by its timeout
Settle(r) ==
    \/ \E data \in ConcPayloads : Resolve(r, 200, data)
    \/ \E f \in ConcFailures : Reject(r, f)

Arrive(r) == \E route \in ConcRoutes, q \in ConcQueries : Receive(r, route, q)

NextConc == \E r \in Reqs : Arrive(r) \/ Settle(r)

\* every pending upstream call settles (timeout: 60000)
SpecConc == Init /\ [][NextConc]_vars /\ \A r \in Reqs : WF_vars(Settle(r))

-----------------------------------------------------------------------------
(* tryDecodeXml on its own *)

Pending == [t |-> "pending"]

\* '<', 'P', 'A', '=', ' ', '!', 'a'
DecodeAlphabet == {60, 80, 65, 61, 32, 33, 97}

\* documents the upstream may encode: "<a/>", " <a/>", "<a/>" after a byte
\* order mark, "no", ""
Documents == {XmlA, <<32>> \o XmlA, <<239, 187, 191>> \o XmlA, Garbage, <<>>}

DecodeInputs ==
    {Undefined, Null, IntNum(0), IntNum(7)}
    \cup {Str(s) : s \in SeqsUpTo(DecodeAlphabet, MaxLen)}
    \cup {Str(Base64Encode(Gzip(d))) : d \in Documents}
    \cup {Str(Base64Encode(d)) : d \in Documents}
    \cup {Str(Base64Encode(GzipMagic \o XmlA \o <<9>>)), Str(XmlA)}

InitDecode ==
    /\ config = FullConfig
    /\ InitReqs
    /\ decIn \in DecodeInputs
    /\ decOut = Pending

Decode ==
    /\ decOut = Pending
    /\ decOut' = tryDecodeXml(decIn)
    /\ UNCHANGED <<config, pc, req, sent, ncalls, reply, resp, nresp, decIn>>

NextDecode == Decode

SpecDecode == InitDecode /\ [][NextDecode]_vars

-----------------------------------------------------------------------------
(* Properties *)

Gateway == {"/nfse/distribuicao", "/nfse/documento"}

\* requests to one of the two endpoints that have been answered
Answered == {r \in Reqs : pc[r] = "done" /\ req[r].route \in Gateway}

\* answered requests whose upstream call resolved / rejected
Resolved == {r \in Answered : reply[r] # Undefined /\ reply[r].ok}
Rejected == {r \in Answered : reply[r] # Undefined /\ ~reply[r].ok}

\* the query parameter is absent or the empty string
NsuMissing(r) == req[r].query.nsu = Undefined \/ req[r].query.nsu = Str(<<>>)

\* C1: a request to either endpoint whose nsu is missing or empty is answered
\* with HTTP 400 and no upstream call is made for it.
C1_MissingNsuIs400 ==
    \A r \in Answered :
        NsuMissing(r) => resp[r].status = 400 /\ ncalls[r] = 0 /\ sent[r] = Undefined

C1_Witness ==
    \E r \in Answered :
        /\ req[r].route = "/nfse/documento"
        /\ req[r].query.nsu = Str(<<>>)
        /\ resp[r].status = 400

\* the text (white space aside) is a run of decimal digits
DenotesNatural(v) ==
    v.t = "string" /\ Trim(v.s) # <<>> /\ AllDigits(Trim(v.s))

\* C2: an upstream call is dispatched only for an nsu that denotes a
\* non-negative integer, to /DFe/ followed by that integer; every other
\* present value is answered with HTTP 400 before any upstream call.
\* (Stated for the configured gateway, where nothing but the nsu decides.)
C2_NsuIsNaturalAtDispatch ==
    \A r \in Reqs :
        config = FullConfig /\ pc[r] # "idle" /\ req[r].route \in Gateway =>
            LET nsu == req[r].query.nsu
            IN  /\ ncalls[r] > 0 =>
                    /\ DenotesNatural(nsu)
                    /\ sent[r].url = Str(DFePath \o IntToString(DigitsValue(Trim(nsu.s))))
                /\ Truthy(nsu) /\ ~DenotesNatural(nsu) =>
                    pc[r] = "done" /\ resp[r].status = 400 /\ ncalls[r] = 0

\* C3 as stated: on upstream success /nfse/distribuicao answers with the
\* upstream body unchanged and with the status code the upstream returned.
C3_PassesUpstreamStatus ==
    \A r \in Resolved :
        req[r].route = "/nfse/distribuicao" =>
            /\ resp[r].body = reply[r].v.data
            /\ resp[r].status = reply[r].v.status

\* C3 amended: on upstream success /nfse/distribuicao answers with the
\* upstream body unchanged and with status 200, whatever 2xx status the
\* upstream returned.
C3_BodyVerbatimStatus200 ==
    \A r \in Resolved :
        req[r].route = "/nfse/distribuicao" =>
            /\ resp[r].body = reply[r].v.data
            /\ resp[r].status = 200

C3_Witness ==
    \E r \in Resolved :
        /\ req[r].route = "/nfse/distribuicao"
        /\ reply[r].v.status = 204
        /\ reply[r].v.data = Envelope(Arr(<<>>))
        /\ resp[r].status = 200

\* C4: when the upstream call fails, the answer carries the upstream's status
\* code if the failure has one and 500 otherwise; detalhe is populated with
\* the upstream body if there is one and else with the failure message;
\* fullUrl is the base URL followed by the request path.
C4_UpstreamFailureSurfaced ==
    \A r \in Rejected :
        LET err == reply[r].v
            answered == err.response # Undefined
            hasBody == answered /\ err.response.data # Str(<<>>)
            body == resp[r].body
        IN  /\ resp[r].status = IF answered THEN err.response.status ELSE 500
            /\ body.status = resp[r].status
            /\ IF hasBody THEN body.detalhe = err.response.data
               ELSE /\ body.detalhe.t = "object"
                    /\ body.detalhe.message # ""
                    /\ err.message # "" => body.detalhe.message = err.message
            /\ body.fullUrl = config.NACIONAL_BASE_URL.s \o sent[r].url.s

C4_Witness ==
    \E r \in Rejected :
        /\ reply[r].v.response # Undefined
        /\ reply[r].v.response.status = 503
        /\ resp[r].status = 503
        /\ resp[r].body.detalhe = ErrorBody

\* the three strategies of the heuristic, each with what it yields
Strategy(k, v) ==
    CASE k = 1 -> Step1(v)
      [] k = 2 -> Step2(v)
      [] OTHER -> IF v.t = "string" THEN Ok(v.s) ELSE Throw("not a string")

\* a strategy succeeds when it yields text that, trimmed, begins with '<'
Succeeds(k, v) ==
    LET y == Strategy(k, v) IN y.ok /\ TrimStartsWithLt(y.v)

\* C5: tryDecodeXml returns what the first succeeding strategy yields, in the
\* order gzip+base64, base64, raw; null when none succeeds or the value is
\* empty or absent; a failing strategy never surfaces as an error.
C5_FirstSucceedingStrategy ==
    decOut # Pending =>
        LET wins == {k \in 1..3 : Truthy(decIn) /\ Succeeds(k, decIn)}
        IN  /\ decOut.t \in {"null", "string"}
            /\ IF wins = {} THEN decOut = Null
               ELSE LET first == CHOOSE k \in wins : \A j \in wins : k <= j
                    IN  decOut = Str(Strategy(first, decIn).v)

\* raw text that is XML by itself and also decodes, as base64, to other XML:
\* the base64 strategy wins
C5_Witness ==
    /\ decOut # Pending
    /\ decIn.t = "string"
    /\ ~Succeeds(1, decIn) /\ Succeeds(2, decIn) /\ Succeeds(3, decIn)
    /\ decOut = Str(Strategy(2, decIn).v)
    /\ decOut # decIn

\* the record carries a non-empty ArquivoXml
HasArquivo(x) ==
    x.t = "object" /\ x.ArquivoXml.t = "string" /\ x.ArquivoXml.s # <<>>

\* what the resolver yielded, read off the answer: the document, or null
Yielded(r) == IF resp[r].status = 200 THEN resp[r].body ELSE Null

C7_DocumentoOutcomes ==
    \A r \in Resolved :
        req[r].route = "/nfse/documento" =>
            LET payload == reply[r].v.data
                xml == tryDecodeXml(ArquivoXmlOf(itemComXml(payload)))
                \* the NSU of the upstream path /DFe/{NSU}
                nsu == SubSeq(sent[r].url.s, Len(DFePath) + 1, Len(sent[r].url.s))
            IN  IF xml # Null
                THEN /\ resp[r].status = 200
                     /\ resp[r].type = "application/xml; charset=utf-8"
                     /\ resp[r].disposition =
                          Str(<<110, 102, 115, 101, 95>> \o nsu \o <<46, 120, 109, 108>>)
                     /\ resp[r].body = xml
                ELSE /\ resp[r].status = 404
                     /\ resp[r].body.retorno = payload

C7_Witness ==
    \E r \in Resolved :
        /\ req[r].route = "/nfse/documento"
        /\ req[r].query.nsu = Str(<<53>>)
        /\ resp[r].status = 200
        /\ resp[r].body = Str(XmlA)
        /\ resp[r].disposition = Str(<<110, 102, 115, 101, 95, 53, 46, 120, 109, 108>>)

ConfigIncomplete ==
    \E k \in {"NACIONAL_BASE_URL", "CERT_PFX_BASE64", "CERT_PFX_PASSPHRASE"} :
        config[k] \in {Undefined, Str(<<>>)}

\* the answer of a failure that never reached the network: no resolved URL
\* and a message naming the missing setting
IsConfigError(r) ==
    /\ resp[r].body.fullUrl = <<>>
    /\ resp[r].body.detalhe.t = "object"
    /\ resp[r].body.detalhe.message \in
         {"NACIONAL_BASE_URL ausente", "CERT_PFX_BASE64 ausente",
          "CERT_PFX_PASSPHRASE ausente"}

\* C8: with the PKCS#12 blob, the passphrase or the base URL missing, no
\* upstream call is ever made, every request with an nsu is answered with a
\* 5xx status, and the answer differs from that of a network failure.
C8_ConfigErrorFailsFast ==
    /\ ConfigIncomplete =>
         /\ \A r \in Reqs : ncalls[r] = 0 /\ sent[r] = Undefined
         /\ \A r \in Answered :
               ~NsuMissing(r) => resp[r].status \in 500..599 /\ IsConfigError(r)
    /\ \A r \in Rejected : ~IsConfigError(r)

C8_Witness ==
    \E r \in Answered :
        /\ config.CERT_PFX_PASSPHRASE = Undefined
        /\ config.NACIONAL_BASE_URL # Undefined
        /\ req[r].route = "/nfse/distribuicao"
        /\ req[r].query.nsu = Str(<<53>>)
        /\ resp[r].status = 500
        /\ IsConfigError(r)

\* C9: a request causes at most one upstream call, placed when it arrives and
\* never again after a failure, and every request that arrived is eventually
\* answered exactly once.
C9_OneCallOneAnswer ==
    /\ [](\A r \in Reqs :
            /\ ncalls[r] <= 1
            /\ nresp[r] <= 1
            /\ pc[r] = "done" <=> nresp[r] = 1)
    /\ [][\A r \in Reqs : ncalls'[r] # ncalls[r] => pc[r] = "idle"]_vars
    /\ \A r \in Reqs : (pc[r] # "idle") ~> (nresp[r] = 1)

\* a failed upstream call surfaced on its own request, with no second call
C9_Witness ==
    \E r \in Rejected :
        /\ reply[r].v.response = Undefined
        /\ ncalls[r] = 1
        /\ nresp[r] = 1
        /\ resp[r].status = 500

\* the answer as a function of the request, the configuration and the reply
Outcome(rq, cfg, rp) ==
    IF MissingNsu(rq.query) THEN BadRequest
    ELSE IF ~buildAxios(cfg).ok THEN ErrorResponse(rq.route, buildAxios(cfg).v)
    ELSE IF ~rp.ok THEN ErrorResponse(rq.route, rp.v)
    ELSE IF rq.route = "/nfse/distribuicao" THEN DistribuicaoOk(rp.v)
    ELSE DocumentoOk(Locals(rq.query).nsu, rp.v)

\* C10: under every interleaving, a request's answer is a function of its own
\* query, the configuration and the reply to its own call; a step of one
\* request changes nothing of another; the configuration never changes.
C10_RequestsIndependent ==
    /\ [](\A r \in Answered : resp[r] = Outcome(req[r], config, reply[r]))
    /\ [](\A r1, r2 \in Answered :
            req[r1] = req[r2] /\ reply[r1] = reply[r2] => resp[r1] = resp[r2])
    /\ [][\A r \in Reqs :
            pc'[r] = pc[r] =>
                /\ req'[r] = req[r] /\ sent'[r] = sent[r] /\ ncalls'[r] = ncalls[r]
                /\ reply'[r] = reply[r] /\ resp'[r] = resp[r] /\ nresp'[r] = nresp[r]]_vars
    /\ [][config' = config]_vars

\* one request answered with its own document while another, with a
\* different query, is still waiting for the upstream
C10_Witness ==
    \E r1 \in Answered, r2 \in Reqs :
        /\ pc[r2] = "awaiting"
        /\ req[r1].route = "/nfse/documento"
        /\ req[r1].query # req[r2].query
        /\ ncalls[r1] = 1
        /\ resp[r1].status = 200
        /\ resp[r1].disposition = Str(FileName(IntNum(5)))

====
